---- MODULE Spec2Model ----
(***************************************************************************)
(* A model of OrangeDataClient (src/client.py) and of its validators       *)
(* (src/validators.py): the builder of fiscal documents.                   *)
(*                                                                         *)
(* Python values are tagged records [t |-> type, v |-> value]; a str is a  *)
(* sequence of one-character strings; a dict is a function from its keys;  *)
(* None is a value of its own.  A Decimal and a float carry the number as  *)
(* an integer count of 10^-e units: [v |-> 2100, e |-> 2] is 21.00.         *)
(***************************************************************************)
EXTENDS Integers, Sequences, FiniteSets, TLC

VARIABLES order, correction, last, wire

vars == <<order, correction, last, wire>>

----------------------------------------------------------------------------
(* Python values *)

None == [t |-> "None"]
Str(s) == [t |-> "str", v |-> s]
PyInt(n) == [t |-> "int", v |-> n]
PyList(l) == [t |-> "list", v |-> l]
PyBool(b) == [t |-> "bool", v |-> b]
PyDecimal(n, e) == [t |-> "Decimal", v |-> n, e |-> e]
PyFloat(n, e) == [t |-> "float", v |-> n, e |-> e]

\* the string of n copies of the character c
Rep(c, n) == [i \in 1..n |-> c]

\* truth value of an object in a condition: None, 0, "" and [] are false
Truthy(x) ==
    CASE x.t = "None" -> FALSE
      [] x.t = "bool" -> x.v
      [] x.t \in {"int", "float", "Decimal"} -> x.v # 0
      [] x.t \in {"str", "list"} -> Len(x.v) > 0
      [] OTHER -> TRUE

\* objects that implement __len__
HasLen(x) == x.t \in {"str", "list"}

\* float(x) of a Decimal, an int or a float
float(x) == IF x.t = "int" THEN PyFloat(x.v, 0) ELSE PyFloat(x.v, x.e)

\* isinstance(x, (t1, t2, ...))
isinstance(x, types) == x.t \in types

\* dict(): the empty dictionary
dict == <<>>

\* d[k] = x
Put(d, k, x) == [j \in DOMAIN d \cup {k} |-> IF j = k THEN x ELSE d[j]]

\* d[k1][k2] = x, d[k1] being a dictionary
Put2(d, k1, k2, x) == Put(d, k1, Put(d[k1], k2, x))

\* d[k1][k2][k3] = x
Put3(d, k1, k2, k3, x) == Put(d, k1, Put2(d[k1], k2, k3, x))

\* l.append(x)
append(l, x) == PyList(Append(l.v, x))

----------------------------------------------------------------------------
(* Outcomes of a call *)

Ok == [exc |-> "", msg |-> ""]
ValidationError(msg) == [exc |-> "OrangeDataClientValidationError", msg |-> msg]
TypeError == [exc |-> "TypeError", msg |-> ""]
KeyError(k) == [exc |-> "KeyError", msg |-> k]
IOError == [exc |-> "IOError", msg |-> ""]

----------------------------------------------------------------------------
(* validators.py *)

Digits == {"0", "1", "2", "3", "4", "5", "6", "7", "8", "9"}
Separators == {"-", " "}

\* the character of s at index i, "" past the end
At(s, i) == IF i \in 1..Len(s) THEN s[i] ELSE ""

\* [\- ]? from each of the positions J
OptSep(s, J) == J \cup {j + 1 : j \in {i \in J : At(s, i) \in Separators}}

\* c? from each of the positions J
OptChar(s, J, c) == J \cup {j + 1 : j \in {i \in J : At(s, i) = c}}

\* \d{3} from each of the positions J
ThreeDigits(s, J) ==
    {j + 3 : j \in {i \in J : /\ At(s, i) \in Digits
                              /\ At(s, i + 1) \in Digits
                              /\ At(s, i + 2) \in Digits}}

\* (8|\+7)[\- ]? from position 1: the positions where the group can end
PrefixEnds(s) ==
    OptSep(s, (IF At(s, 1) = "8" THEN {2} ELSE {})
              \cup (IF At(s, 1) = "+" /\ At(s, 2) = "7" THEN {3} ELSE {}))

\* \(?\d{3}\)?[\- ]? from the positions J
AreaEnds(s, J) == OptSep(s, OptChar(s, ThreeDigits(s, OptChar(s, J, "(")), ")"))

\* [\d\- ]{7,10}$ from position i; $ also matches before a final newline
TailMatches(s, i) ==
    LET end == IF Len(s) > 0 /\ s[Len(s)] = "\n" THEN {Len(s), Len(s) - 1}
               ELSE {Len(s)}
    IN  \E e \in end :
            /\ e - i + 1 \in 7..10
            /\ \A j \in i..e : s[j] \in Digits \cup Separators

\* re.match(r'^((8|\+7)[\- ]?)?(\(?\d{3}\)?[\- ]?)?[\d\- ]{7,10}$', s)
PhonePattern(s) ==
    LET P1 == {1} \cup PrefixEnds(s)
        P2 == P1 \cup AreaEnds(s, P1)
    IN  \E i \in P2 : TailMatches(s, i)

phone_is_valid(phone) == PhonePattern(phone.v)

\* length_is_valid(obj, min_, max_): None, True or False; min_ and max_ are
\* None or numbers, and a bound of 0 is skipped like an absent one
length_is_valid(obj, min_, max_) ==
    LET length == Len(obj.v)
    IN  IF Truthy(min_) /\ ~(length >= min_.v) THEN PyBool(FALSE)
        ELSE IF Truthy(max_) THEN PyBool(length <= max_.v)
        ELSE IF Truthy(min_) THEN PyBool(TRUE)
        ELSE None

\* the test `if length_is_valid(obj, lo, hi)` with two integer bounds
LenOk(obj, lo, hi) == Truthy(length_is_valid(obj, PyInt(lo), PyInt(hi)))

----------------------------------------------------------------------------
(* client.py: OrangeDataClient *)

\* self.__inn, set by __init__
Inn == Str(<<"7", "7", "0", "1">>)

\* x == n for a number n
Eq(x, n) == x.t = "int" /\ x.v = n

\* x in (n1, n2, ...)
In(x, ns) == x.t = "int" /\ x.v \in ns

\* '@' in s
ContainsAt(s) == \E i \in 1..Len(s.v) : s.v[i] = "@"

\* the document a create_order that checks taxation_system before type_ leaves
create_order_tax_first(a) ==
    LET d0 == Put(Put(dict, "id", a.id_), "inn", Inn)
        d1 == IF Truthy(a.group) THEN Put(d0, "group", a.group) ELSE d0
        d2 == IF Truthy(a.key) THEN Put(d1, "key", a.key) ELSE d1
        d3 == Put(d2, "ignoreItemCodeCheck", a.ignore_item_code_check)
        d4 == Put(d3, "content", dict)
        d5 == Put2(d4, "content", "ffdVersion", a.ffd_version)
        d6 == Put2(d5, "content", "checkClose", [payments |-> PyList(<<>>)])
        d7 == Put3(d6, "content", "checkClose", "taxationSystem", a.taxation_system)
        d8 == Put2(Put2(d7, "content", "type", a.type_), "content", "positions", PyList(<<>>))
        d9 == Put2(d8, "content", "customerContact", a.customer_contact)
    IN  IF ~(Eq(a.ffd_version, 2) \/ Eq(a.ffd_version, 4))
            THEN [doc |-> d4, err |-> ValidationError("Incorrect ffd version")]
        ELSE IF ~In(a.taxation_system, {0, 1, 2, 3, 4, 5})
            THEN [doc |-> d6, err |-> ValidationError("Incorrect taxationSystem")]
        ELSE IF ~In(a.type_, {1, 2, 3, 4})
            THEN [doc |-> d7, err |-> ValidationError("Incorrect order Type")]
        ELSE IF ContainsAt(a.customer_contact) \/ PhonePattern(a.customer_contact.v)
            THEN [doc |-> d9, err |-> Ok]
        ELSE [doc |-> d8, err |-> ValidationError("Incorrect customer Contact")]

\* the document a create_order that keeps the content of the previous order
\* leaves: self.__order_request['content'] is not emptied
create_order_keeping_content(a) ==
    LET d0 == Put(Put(dict, "id", a.id_), "inn", Inn)
        d1 == IF Truthy(a.group) THEN Put(d0, "group", a.group) ELSE d0
        d2 == IF Truthy(a.key) THEN Put(d1, "key", a.key) ELSE d1
        d3 == Put(d2, "ignoreItemCodeCheck", a.ignore_item_code_check)
        d4 == Put(d3, "content", IF order = None THEN dict ELSE order["content"])
        d5 == Put2(d4, "content", "ffdVersion", a.ffd_version)
        d6 == Put2(d5, "content", "type", a.type_)
        d7 == Put2(d6, "content", "positions", PyList(<<>>))
        d8 == Put2(d7, "content", "checkClose", dict)
        d9 == Put3(d8, "content", "checkClose", "payments", PyList(<<>>))
        d10 == Put3(d9, "content", "checkClose", "taxationSystem", a.taxation_system)
        d11 == Put2(d10, "content", "customerContact", a.customer_contact)
    IN  IF ~(Eq(a.ffd_version, 2) \/ Eq(a.ffd_version, 4))
            THEN [doc |-> d4, err |-> ValidationError("Incorrect ffd version")]
        ELSE IF ~In(a.type_, {1, 2, 3, 4})
            THEN [doc |-> d5, err |-> ValidationError("Incorrect order Type")]
        ELSE IF ~In(a.taxation_system, {0, 1, 2, 3, 4, 5})
            THEN [doc |-> d9, err |-> ValidationError("Incorrect taxationSystem")]
        ELSE IF ContainsAt(a.customer_contact) \/ PhonePattern(a.customer_contact.v)
            THEN [doc |-> d11, err |-> Ok]
        ELSE [doc |-> d10, err |-> ValidationError("Incorrect customer Contact")]

\* create_order: the document it leaves in self.__order_request and the
\* exception it raises, if any.  The document is rebuilt from an empty
\* dictionary before any argument is checked.
create_order(a) ==
    LET d0 == Put(Put(dict, "id", a.id_), "inn", Inn)
        d1 == IF Truthy(a.group) THEN Put(d0, "group", a.group) ELSE d0
        d2 == IF Truthy(a.key) THEN Put(d1, "key", a.key) ELSE d1
        d3 == Put(d2, "ignoreItemCodeCheck", a.ignore_item_code_check)
        d4 == Put(d3, "content", dict)
        d5 == Put2(d4, "content", "ffdVersion", a.ffd_version)
        d6 == Put2(d5, "content", "type", a.type_)
        d7 == Put2(d6, "content", "positions", PyList(<<>>))
        d8 == Put2(d7, "content", "checkClose", dict)
        d9 == Put3(d8, "content", "checkClose", "payments", PyList(<<>>))
        d10 == Put3(d9, "content", "checkClose", "taxationSystem", a.taxation_system)
        d11 == Put2(d10, "content", "customerContact", a.customer_contact)
    IN  IF ~(Eq(a.ffd_version, 2) \/ Eq(a.ffd_version, 4))
            THEN [doc |-> d4, err |-> ValidationError("Incorrect ffd version")]
        ELSE IF ~In(a.type_, {1, 2, 3, 4})
            THEN [doc |-> d5, err |-> ValidationError("Incorrect order Type")]
        ELSE IF ~In(a.taxation_system, {0, 1, 2, 3, 4, 5})
            THEN [doc |-> d9, err |-> ValidationError("Incorrect taxationSystem")]
        ELSE IF a.customer_contact.t # "str"
            THEN [doc |-> d10, err |-> TypeError]
        ELSE IF ContainsAt(a.customer_contact) \/ PhonePattern(a.customer_contact.v)
            THEN [doc |-> d11, err |-> Ok]
        ELSE [doc |-> d10, err |-> ValidationError("Incorrect customer Contact")]

----------------------------------------------------------------------------
(* Building one position: a local dictionary and the exception raised *)

Going(s) == s.err = Ok
Raise(s, e) == [s EXCEPT !.err = e]

\* position[k] = x
Set(s, k, x) == [s EXCEPT !.pos = Put(@, k, x)]

\* position[k1][k] = x: a KeyError when position has no k1
SetIn(s, k1, k, x) ==
    IF k1 \in DOMAIN s.pos THEN [s EXCEPT !.pos = Put2(@, k1, k, x)]
    ELSE Raise(s, KeyError(k1))

\* if x: if length_is_valid(x, lo, hi): position[k] = x / else: raise
FieldStr(s, x, lo, hi, k, msg) ==
    IF ~Going(s) \/ ~Truthy(x) THEN s
    ELSE IF ~HasLen(x) THEN Raise(s, TypeError)
    ELSE IF LenOk(x, lo, hi) THEN Set(s, k, x)
    ELSE Raise(s, ValidationError(msg))

\* the same for position[k1][k]
FieldStrIn(s, x, lo, hi, k1, k, msg) ==
    IF ~Going(s) \/ ~Truthy(x) THEN s
    ELSE IF ~HasLen(x) THEN Raise(s, TypeError)
    ELSE IF LenOk(x, lo, hi) THEN SetIn(s, k1, k, x)
    ELSE Raise(s, ValidationError(msg))

\* if x: for phone in x: if not phone_is_valid(phone): raise
\*                       position[k1][k] = x          (inside the loop)
FieldPhonesIn(s, x, k1, k, msg) ==
    IF ~Going(s) \/ ~Truthy(x) THEN s
    ELSE IF ~phone_is_valid(x.v[1]) THEN Raise(s, ValidationError(msg))
    ELSE IF k1 \notin DOMAIN s.pos THEN Raise(s, KeyError(k1))
    ELSE IF \A i \in 1..Len(x.v) : phone_is_valid(x.v[i]) THEN SetIn(s, k1, k, x)
    ELSE Raise(s, ValidationError(msg))

\* if x: if isinstance(x, (int, float)): position[k] = y / else: raise
FieldNum(s, x, k, y, msg) ==
    IF ~Going(s) \/ ~Truthy(x) THEN s
    ELSE IF isinstance(x, {"int", "float"}) THEN Set(s, k, y)
    ELSE Raise(s, ValidationError(msg))

\* if x: if len(measured) == n: position['barcodes'][k] = x / else: raise
FieldBarcode(s, x, measured, n, k, msg) ==
    IF ~Going(s) \/ ~Truthy(x) THEN s
    ELSE IF ~HasLen(measured) THEN Raise(s, TypeError)
    ELSE IF Len(measured.v) = n THEN SetIn(s, "barcodes", k, x)
    ELSE Raise(s, ValidationError(msg))

RECURSIVE Pow(_, _)
Pow(b, n) == IF n = 0 THEN 1 ELSE b * Pow(b, n - 1)

\* 2 ** n: an int for n >= 0, the float 5^-n / 10^-n below
Pow2(n) == IF n.v >= 0 THEN PyInt(Pow(2, n.v)) ELSE PyFloat(Pow(5, -n.v), -n.v)

\* 0 < x < 128 for an int or a float x
AgentTypeInRange(x) ==
    IF x.t = "int" THEN 0 < x.v /\ x.v < 128 ELSE 0 < x.v /\ x.v < 128 * Pow(10, x.e)

\* len(''.join(l)) + 4 * len(l)
RECURSIVE JoinedLen(_)
JoinedLen(l) == IF l = <<>> THEN 0 ELSE Len(Head(l).v) + 4 + JoinedLen(Tail(l))

DaysIn(m, y) ==
    IF m \in {4, 6, 9, 11} THEN 30
    ELSE IF m # 2 THEN 31
    ELSE IF y % 4 = 0 /\ (y % 100 # 0 \/ y % 400 = 0) THEN 29 ELSE 28

DigitValue(c) == CHOOSE n \in 0..9 : ToString(n) = c

RECURSIVE Number(_)
Number(s) == IF s = <<>> THEN 0 ELSE 10 * Number(SubSeq(s, 1, Len(s) - 1)) + DigitValue(s[Len(s)])

\* time.strptime(s, "%d.%m.%Y") does not raise ValueError: one or two digits
\* of a day, a dot, one or two digits of a month, a dot, four digits of a year
DateOk(s) ==
    \E i \in 2..3, j \in 4..6 :
        /\ Len(s) = j + 4 /\ j - i \in 2..3
        /\ s[i] = "." /\ s[j] = "."
        /\ \A n \in (1..Len(s)) \ {i, j} : s[n] \in Digits
        /\ LET d == Number(SubSeq(s, 1, i - 1))
               m == Number(SubSeq(s, i + 1, j - 1))
               y == Number(SubSeq(s, j + 1, j + 4))
           IN  m \in 1..12 /\ d >= 1 /\ d <= DaysIn(m, y) /\ y >= 1

\* the base fields and the payment attributes of a position
position_base(a) ==
    LET p0 == [pos |-> dict, err |-> Ok]
        p1 == IF ~(/\ isinstance(a.quantity, {"float", "int"})
                   /\ isinstance(a.price, {"Decimal"})
                   /\ In(a.tax, {1, 2, 3, 4, 5, 6}))
              THEN Raise(p0, ValidationError("Invalid Position Quantity, Price, Tax or Text"))
              ELSE IF ~HasLen(a.text) THEN Raise(p0, TypeError)
              ELSE IF Truthy(length_is_valid(a.text, None, PyInt(128)))
              THEN [p0 EXCEPT !.pos = Put(Put(Put(Put(dict,
                        "quantity", a.quantity), "price", float(a.price)),
                        "tax", a.tax), "text", a.text)]
              ELSE Raise(p0, ValidationError("Invalid Position Quantity, Price, Tax or Text"))
    IN  IF ~Going(p1) THEN p1
        ELSE IF /\ In(a.payment_method_type, {1, 2, 3, 4, 5, 6, 7})
                /\ In(a.payment_subject_type, 1..13)
        THEN Set(Set(p1, "paymentMethodType", a.payment_method_type),
                 "paymentSubjectType", a.payment_subject_type)
        ELSE Raise(p1, ValidationError("Invalid Position payment_method_type or payment_subject_type"))

\* the supplier of a position
position_supplier(s, a) ==
    LET p1 == IF Truthy(a.supplier_inn) /\ LenOk(a.supplier_inn, 10, 13)
              THEN Set(s, "supplierINN", a.supplier_inn) ELSE s
        p2 == IF Truthy(a.supplier_phone_numbers) \/ Truthy(a.supplier_name)
              THEN Set(p1, "supplierInfo", dict) ELSE p1
        p3 == FieldPhonesIn(p2, a.supplier_phone_numbers, "supplierInfo", "phoneNumbers",
                            "Invalid supplier_phone_numbers")
        phones == IF "phoneNumbers" \in DOMAIN p3.pos["supplierInfo"]
                  THEN p3.pos["supplierInfo"]["phoneNumbers"].v ELSE <<>>
        max_length == 239 - JoinedLen(phones)
    IN  IF ~Going(s) THEN s
        ELSE IF ~Going(p3) \/ ~Truthy(a.supplier_name) THEN p3
        ELSE IF Truthy(length_is_valid(a.supplier_name, PyInt(1), PyInt(max_length)))
        THEN SetIn(p3, "supplierInfo", "name", a.supplier_name)
        ELSE Raise(p3, ValidationError("Invalid supplier name"))

\* the agent of a position
position_agent(s, a) ==
    LET p1 == IF ~Truthy(a.agent_type) THEN s
              ELSE IF AgentTypeInRange(Pow2(a.agent_type))
              THEN Set(s, "agentType", Pow2(a.agent_type))
              ELSE Raise(s, ValidationError("Invalid agent_type"))
        p2 == IF \/ Truthy(a.payment_transfer_operator_phone_numbers)
                 \/ Truthy(a.payment_agent_operation)
                 \/ Truthy(a.payment_operator_name)
                 \/ Truthy(a.payment_operator_address)
                 \/ Truthy(a.payment_operator_inn)
              THEN Set(p1, "agentInfo", dict) ELSE p1
        p3 == FieldPhonesIn(p2, a.payment_transfer_operator_phone_numbers, "agentInfo",
                  "paymentTransferOperatorPhoneNumbers",
                  "Invalid payment_transfer_operator_phone_numbers")
        p4 == FieldStrIn(p3, a.payment_agent_operation, 1, 24, "agentInfo",
                  "paymentAgentOperation", "Invalid payment_agent_operation")
        p5 == FieldPhonesIn(p4, a.payment_agent_phone_numbers, "agentInfo",
                  "paymentAgentPhoneNumbers", "Invalid payment_agent_phone_numbers")
        p6 == FieldPhonesIn(p5, a.payment_operator_phone_numbers, "agentInfo",
                  "paymentOperatorPhoneNumbers", "Invalid payment_operator_phone_numbers")
        p7 == FieldStrIn(p6, a.payment_operator_name, 1, 64, "agentInfo",
                  "paymentOperatorName", "Invalid payment_operator_name")
        p8 == FieldStrIn(p7, a.payment_operator_address, 1, 243, "agentInfo",
                  "paymentOperatorAddress", "Invalid payment_operator_address")
        p9 == FieldStrIn(p8, a.payment_operator_inn, 10, 12, "agentInfo",
                  "paymentOperatorINN", "Invalid payment_operator_inn")
    IN  IF ~Going(s) THEN s ELSE IF ~Going(p1) THEN p1 ELSE p9

\* the attributes of a position common to both schema revisions
position_attributes(s, a) ==
    LET p1 == FieldStr(s, a.additional_attribute, 1, 64, "additionalAttribute",
                  "Invalid additional_attribute")
        p2 == FieldStr(p1, a.manufacturer_country_code, 1, 3, "manufacturerCountryCode",
                  "Invalid additional_attribute")
        p3 == FieldStr(p2, a.customs_declaration_number, 1, 32, "customsDeclarationNumber",
                  "Invalid customs_declaration_number")
        p4 == FieldNum(p3, a.excise, "excise", a.excise, "Invalid excise")
        p5 == FieldNum(p4, a.tax_sum, "taxSum", a.tax_sum, "Invalid tax_sum")
        p6 == FieldNum(p5, a.unit_tax_sum, "unitTaxSum", a.tax_sum, "Invalid unit_tax_sum")
    IN  p6

\* the FFD 1.05 attribute of a position
position_ffd105(s, a) ==
    FieldStr(s, a.unit_of_measurement, 1, 16, "unitOfMeasurement",
             "Invalid unit_of_measurement")

\* if x: if lo <= x < hi (or lo < x): position[k] = x / else: raise
FieldRange(s, x, ok, k, msg) ==
    IF ~Going(s) \/ ~Truthy(x) THEN s
    ELSE IF ok THEN Set(s, k, x)
    ELSE Raise(s, ValidationError(msg))

\* if x: if isinstance(x, int): position[k] = {k2: x} / else: raise
FieldIntNew(s, x, k, k2, msg) ==
    IF ~Going(s) \/ ~Truthy(x) THEN s
    ELSE IF isinstance(x, {"int"}) THEN Set(s, k, Put(dict, k2, x))
    ELSE Raise(s, ValidationError(msg))

\* if x: if isinstance(x, int): position[k1][k] = x / else: raise
FieldIntIn(s, x, k1, k, msg) ==
    IF ~Going(s) \/ ~Truthy(x) THEN s
    ELSE IF isinstance(x, {"int"}) THEN SetIn(s, k1, k, x)
    ELSE Raise(s, ValidationError(msg))

\* if x: try: time.strptime(x, '%d.%m.%Y'); position[k1][k] = x / except: raise
FieldDateIn(s, x, k1, k, msg) ==
    IF ~Going(s) \/ ~Truthy(x) THEN s
    ELSE IF DateOk(x.v) THEN SetIn(s, k1, k, x)
    ELSE Raise(s, ValidationError(msg))

\* position[k] = dict()
NewDict(s, k) == IF Going(s) THEN Set(s, k, dict) ELSE s

\* the FFD 1.2 attributes of a position
position_ffd12(s, a) ==
    LET p1 == FieldRange(s, a.quantity_measurement_unit,
                  0 <= a.quantity_measurement_unit.v /\ a.quantity_measurement_unit.v < 256,
                  "quantityMeasurementUnit", "Invalid quantity_measurement_unit")
        p2 == FieldStr(p1, a.item_code, 1, 223, "itemCode", "Invalid item_code")
        p3 == FieldRange(p2, a.planned_status,
                  0 < a.planned_status.v /\ a.planned_status.v < 256,
                  "itemCode", "Invalid planned_status")
        p4 == FieldIntNew(p3, a.fractional_quantity_numerator, "fractionalQuantity",
                  "Numerator", "Invalid fractional_quantity_numerator")
        p5 == FieldIntIn(p4, a.fractional_quantity_denominator, "fractionalQuantity",
                  "Denominator", "Invalid fractional_quantity_denominator")
        p6 == NewDict(p5, "industryAttribute")
        p7 == FieldStrIn(p6, a.industry_attribute_foivId, 1, 3, "industryAttribute",
                  "foivId", "Invalid industry_attribute_foivId")
        p8 == FieldDateIn(p7, a.industry_attribute_cause_document_date,
                  "industryAttribute", "causeDocumentDate",
                  "Invalid industry_attribute_cause_document_date")
        p9 == FieldStrIn(p8, a.industry_attribute_cause_document_number, 1, 32,
                  "industryAttribute", "causeDocumentNumber",
                  "Invalid industry_attribute_cause_document_number")
        p10 == FieldStrIn(p9, a.industry_attribute_value, 1, 32, "industryAttribute",
                  "value", "Invalid industry_attribute_value")
        b0 == NewDict(p10, "barcodes")
        b1 == FieldBarcode(b0, a.barcodes_ean8, a.barcodes_ean8, 8, "ean8",
                  "Invalid barcodes_ean8")
        b2 == FieldBarcode(b1, a.barcodes_ean13, a.barcodes_ean8, 13, "ean13",
                  "Invalid barcodes_ean13")
        b3 == FieldBarcode(b2, a.barcodes_itf14, a.barcodes_ean8, 14, "itf14",
                  "Invalid barcodes_itf14")
        b4 == FieldStrIn(b3, a.barcodes_gs1, 1, 38, "barcodes", "gs1", "Invalid barcodes_gs1")
        b5 == FieldBarcode(b4, a.barcodes_mi, a.barcodes_mi, 20, "mi", "Invalid barcodes_mi")
        b6 == FieldBarcode(b5, a.barcodes_egais20, a.barcodes_egais20, 23, "egais20",
                  "Invalid barcodes_egais20")
        b7 == FieldBarcode(b6, a.barcodes_egais30, a.barcodes_egais20, 14, "egais30",
                  "Invalid barcodes_egais30")
        b8 == FieldStrIn(b7, a.barcodes_f1, 1, 32, "barcodes", "f1", "Invalid barcodes_f1")
        b9 == FieldStrIn(b8, a.barcodes_f2, 1, 32, "barcodes", "f2", "Invalid barcodes_f2")
        b10 == FieldStrIn(b9, a.barcodes_f3, 1, 32, "barcodes", "f3", "Invalid barcodes_f3")
        b11 == FieldStrIn(b10, a.barcodes_f4, 1, 32, "barcodes", "f4", "Invalid barcodes_f4")
        b12 == FieldStrIn(b11, a.barcodes_f5, 1, 32, "barcodes", "f5", "Invalid barcodes_f5")
        b13 == FieldStrIn(b12, a.barcodes_f6, 1, 32, "barcodes", "f6", "Invalid barcodes_f6")
    IN  b13

\* request['content'][k] of a document, or the exception the lookup raises
Lookup(request, k) ==
    IF request = None THEN [err |-> TypeError]
    ELSE IF k \notin DOMAIN request["content"] THEN [err |-> KeyError(k)]
    ELSE [err |-> Ok, v |-> request["content"][k]]

\* request['content']['positions'].append(position), or the exception raised
append_position(request, position) ==
    IF Lookup(request, "positions").err # Ok
    THEN [doc |-> request, err |-> Lookup(request, "positions").err]
    ELSE [doc |-> Put2(request, "content", "positions",
                       append(request["content"]["positions"], position)),
          err |-> Ok]

\* the FFD 1.2 attributes written whatever content['ffdVersion'] is
position_schema_ungated(s, ffd, a) ==
    IF ~Going(s) THEN s
    ELSE IF ffd.err # Ok THEN Raise(s, ffd.err)
    ELSE position_ffd12(position_ffd105(s, a), a)

\* the attributes of a position that depend on content['ffdVersion']; reading
\* the version raises when there is no document or no such key
position_schema(s, ffd, a) ==
    IF ~Going(s) THEN s
    ELSE IF ffd.err # Ok THEN Raise(s, ffd.err)
    ELSE IF Eq(ffd.v, 2) THEN position_ffd105(s, a)
    ELSE IF Eq(ffd.v, 4) THEN position_ffd12(s, a)
    ELSE s

\* the position add_position_to_order builds before it touches the document,
\* or the exception raised on the way
order_position(request, a) ==
    position_schema(
        position_attributes(position_agent(position_supplier(position_base(a), a), a), a),
        Lookup(request, "ffdVersion"), a)

\* self.__order_request['content']['positions'].append(position) once the
\* position is built; nothing is written when building it raised
finish_position(request, p) ==
    IF ~Going(p) THEN [doc |-> request, err |-> p.err]
    ELSE append_position(request, p.pos)

\* the position appended as soon as its base fields are accepted
add_position_to_order_early(request, a) ==
    IF ~Going(position_base(a)) THEN [doc |-> request, err |-> position_base(a).err]
    ELSE IF ~Going(order_position(request, a))
    THEN [doc |-> append_position(request, position_base(a).pos).doc,
          err |-> order_position(request, a).err]
    ELSE append_position(request, order_position(request, a).pos)

\* add_position_to_order: the order document it leaves and the exception
\* raised; the position is appended last, once every argument is accepted
add_position_to_order(request, a) ==
    finish_position(request, order_position(request, a))

\* add_position_to_correction: no schema test, the FFD 1.2 attributes always
add_position_to_correction(request, a) ==
    finish_position(request,
        position_ffd12(
            position_attributes(position_agent(position_supplier(position_base(a), a), a), a),
            a))

----------------------------------------------------------------------------
(* Payments, agent and user attribute of a document *)

\* add_payment_to_order and add_payment_to_correction: the document left in
\* request and the exception raised
add_payment(request, a) ==
    LET payment == Put(Put(dict, "type", a.type_), "amount", float(a.amount))
    IN  IF ~(In(a.type_, {1, 2, 14, 15, 16}) /\ isinstance(a.amount, {"Decimal"}))
        THEN [doc |-> request, err |-> ValidationError("Invalid Payment Type or Amount")]
        ELSE IF Lookup(request, "checkClose").err # Ok
        THEN [doc |-> request, err |-> Lookup(request, "checkClose").err]
        ELSE IF "payments" \notin DOMAIN request["content"]["checkClose"]
        THEN [doc |-> request, err |-> KeyError("payments")]
        ELSE [doc |-> Put3(request, "content", "checkClose", "payments",
                           append(request["content"]["checkClose"]["payments"], payment)),
              err |-> Ok]

\* the payment appended without looking at its type
add_payment_of_any_type(request, a) ==
    LET payment == Put(Put(dict, "type", a.type_), "amount", float(a.amount))
    IN  IF ~isinstance(a.amount, {"Decimal"})
        THEN [doc |-> request, err |-> ValidationError("Invalid Payment Type or Amount")]
        ELSE IF Lookup(request, "checkClose").err # Ok
        THEN [doc |-> request, err |-> Lookup(request, "checkClose").err]
        ELSE IF "payments" \notin DOMAIN request["content"]["checkClose"]
        THEN [doc |-> request, err |-> KeyError("payments")]
        ELSE [doc |-> Put3(request, "content", "checkClose", "payments",
                           append(request["content"]["checkClose"]["payments"], payment)),
              err |-> Ok]

add_payment_to_order(request, a) == add_payment(request, a)

add_payment_to_correction(request, a) == add_payment(request, a)

\* self.__order_request['content'][k] = x
SetContent(s, k, x) ==
    IF s.doc = None THEN Raise(s, TypeError)
    ELSE [s EXCEPT !.doc = Put2(@, "content", k, x)]

\* if x: if length_is_valid(x, lo, hi): content[k] = x / else: raise
ContentStr(s, x, lo, hi, k, msg) ==
    IF ~Going(s) \/ ~Truthy(x) THEN s
    ELSE IF ~HasLen(x) THEN Raise(s, TypeError)
    ELSE IF LenOk(x, lo, hi) THEN SetContent(s, k, x)
    ELSE Raise(s, ValidationError(msg))

\* if x: for phone in x: if not phone_is_valid(phone): raise
\*       content[k] = x                                 (after the loop)
ContentPhones(s, x, k, msg) ==
    IF ~Going(s) \/ ~Truthy(x) THEN s
    ELSE IF \A i \in 1..Len(x.v) : phone_is_valid(x.v[i]) THEN SetContent(s, k, x)
    ELSE Raise(s, ValidationError(msg))

\* add_agent_to_order: each argument is checked and written in turn
add_agent_to_order(request, a) ==
    LET s0 == [doc |-> request, err |-> Ok]
        s1 == IF ~Truthy(a.agent_type) THEN s0
              ELSE IF AgentTypeInRange(Pow2(a.agent_type))
              THEN SetContent(s0, "agentType", Pow2(a.agent_type))
              ELSE Raise(s0, ValidationError("Invalid agent_type"))
        s2 == ContentPhones(s1, a.pay_TOP, "paymentTransferOperatorPhoneNumbers",
                            "Invalid pay_TOP")
        s3 == ContentStr(s2, a.pay_AO, 1, 24, "paymentAgentOperation", "Invalid pay_AO")
        s4 == ContentPhones(s3, a.pay_APN, "paymentAgentPhoneNumbers", "Invalid pay_APN")
        s5 == ContentPhones(s4, a.pay_OPN, "paymentOperatorPhoneNumbers", "Invalid pay_OPN")
        s6 == ContentStr(s5, a.pay_ON, 1, 64, "paymentOperatorName", "Invalid pay_ON")
        s7 == ContentStr(s6, a.pay_OA, 1, 243, "paymentOperatorAddress", "Invalid pay_OA")
        s8 == ContentStr(s7, a.pay_Op_INN, 10, 12, "paymentOperatorINN", "Invalid pay_Op_INN")
        s9 == ContentPhones(s8, a.sup_PN, "supplierPhoneNumbers", "Invalid sup_PN")
        msg == "Invalid automat_number or settlement_address or settlement_place"
    IN  IF ~Going(s9) THEN s9
        ELSE IF ~(\/ Truthy(a.automat_number) \/ Truthy(a.settlement_address)
                  \/ Truthy(a.settlement_place)) THEN s9
        ELSE IF ~HasLen(a.automat_number) THEN Raise(s9, TypeError)
        ELSE IF ~LenOk(a.automat_number, 1, 20) THEN Raise(s9, ValidationError(msg))
        ELSE IF ~HasLen(a.settlement_address) THEN Raise(s9, TypeError)
        ELSE IF ~LenOk(a.settlement_address, 1, 243) THEN Raise(s9, ValidationError(msg))
        ELSE IF ~HasLen(a.settlement_place) THEN Raise(s9, TypeError)
        ELSE IF ~LenOk(a.settlement_place, 1, 243) THEN Raise(s9, ValidationError(msg))
        ELSE SetContent(SetContent(SetContent(s9, "automatNumber", a.automat_number),
                 "settlementAddress", a.settlement_address),
                 "settlementPlace", a.settlement_place)

\* the value measured alone against the ceiling of 234
add_user_attribute_value_alone(request, a) ==
    LET s0 == SetContent([doc |-> request, err |-> Ok], "additionalUserAttribute", dict)
        s1 == IF LenOk(a.name, 1, 64)
              THEN [s0 EXCEPT !.doc = Put3(@, "content", "additionalUserAttribute",
                                           "name", a.name)]
              ELSE Raise(s0, ValidationError("String name is too long"))
    IN  IF ~Going(s0) THEN s0
        ELSE IF ~Going(s1) THEN s1
        ELSE IF Len(a.value.v) <= 234
        THEN [s1 EXCEPT !.doc = Put3(@, "content", "additionalUserAttribute",
                                     "value", a.value)]
        ELSE Raise(s1, ValidationError("String name + value is too long"))

\* add_user_attribute: the attribute is emptied, then name and value are
\* checked and written in turn
add_user_attribute(request, a) ==
    LET s0 == SetContent([doc |-> request, err |-> Ok], "additionalUserAttribute", dict)
        s1 == IF LenOk(a.name, 1, 64)
              THEN [s0 EXCEPT !.doc = Put3(@, "content", "additionalUserAttribute",
                                           "name", a.name)]
              ELSE Raise(s0, ValidationError("String name is too long"))
    IN  IF ~Going(s0) THEN s0
        ELSE IF ~Going(s1) THEN s1
        ELSE IF LenOk(Str(a.value.v \o a.name.v), 1, 234)
        THEN [s1 EXCEPT !.doc = Put3(@, "content", "additionalUserAttribute",
                                     "value", a.value)]
        ELSE Raise(s1, ValidationError("String name + value is too long"))

----------------------------------------------------------------------------
(* Correction documents *)

\* a datetime.datetime at 00:00:00
PyDate(y, m, d) == [t |-> "datetime", year |-> y, month |-> m, day |-> d]

\* the w decimal digits of n, zero-padded
RECURSIVE Padded(_, _)
Padded(n, w) == IF w = 0 THEN <<>> ELSE Append(Padded(n \div 10, w - 1), ToString(n % 10))

\* d.isoformat()
isoformat(d) ==
    Str(Padded(d.year, 4) \o <<"-">> \o Padded(d.month, 2) \o <<"-">> \o Padded(d.day, 2)
        \o <<"T", "0", "0", ":", "0", "0", ":", "0", "0">>)

\* s[:n]
Prefix(s, n) == Str(SubSeq(s.v, 1, IF Len(s.v) < n THEN Len(s.v) ELSE n))

\* email_is_valid(s): an address shape, local@domain.tld
email_is_valid(s) ==
    \E i \in 2..Len(s.v), j \in 4..Len(s.v) :
        /\ s.v[i] = "@" /\ s.v[j] = "." /\ i + 1 < j /\ j < Len(s.v)
        /\ \A n \in (1..Len(s.v)) \ {i} : s.v[n] # "@"

Main == Str(<<"M", "a", "i", "n">>)
Main_2 == Str(<<"M", "a", "i", "n", "_", "2">>)

\* create_correction: the document it leaves in self.__correction_request and
\* the exception raised
create_correction(a) ==
    LET d0 == Put(Put(Put(dict, "id", a.id_), "inn", Inn),
                  "group", IF Truthy(a.group) THEN a.group ELSE Main)
        d1 == IF Truthy(a.key) THEN Put(d0, "key", a.key) ELSE d0
        d2 == Put(d1, "content", dict)
        d3 == Put2(d2, "content", "correctionType", a.correction_type)
        d4 == Put2(d3, "content", "type", a.type_)
        sums == [description |-> Prefix(a.description, 244),
                 causeDocumentDate |-> isoformat(a.cause_document_date),
                 causeDocumentNumber |-> a.cause_document_number,
                 totalSum |-> float(a.total_sum),
                 cashSum |-> float(a.cash_sum),
                 eCashSum |-> float(a.e_cash_sum),
                 prepaymentSum |-> float(a.pre_payment_sum),
                 postpaymentSum |-> float(a.post_payment_sum),
                 otherPaymentTypeSum |-> float(a.other_payment_sum),
                 tax1Sum |-> float(a.tax_1_sum),
                 tax2Sum |-> float(a.tax_2_sum),
                 tax3Sum |-> float(a.tax_3_sum),
                 tax4Sum |-> float(a.tax_4_sum),
                 tax5Sum |-> float(a.tax_5_sum),
                 tax6Sum |-> float(a.tax_6_sum)]
        d5 == Put(d4, "content", sums @@ d4["content"])
        d6 == Put2(d5, "content", "taxationSystem", a.taxation_system)
    IN  IF ~In(a.correction_type, {0, 1})
            THEN [doc |-> d2, err |-> ValidationError("Incorrect correction correction_type")]
        ELSE IF ~In(a.type_, {1, 3})
            THEN [doc |-> d3, err |-> ValidationError("Incorrect correction Type")]
        ELSE IF ~In(a.taxation_system, {0, 1, 2, 3, 4, 5})
            THEN [doc |-> d5, err |-> ValidationError("Incorrect taxation_system")]
        ELSE [doc |-> d6, err |-> Ok]

\* create_correction12: the FFD 1.2 correction, with positions and payments
create_correction12(a) ==
    LET d0 == Put(Put(Put(Put(dict, "id", a.id_), "inn", Inn),
                  "group", IF Truthy(a.group) THEN a.group ELSE Main_2),
                  "ignoreItemCodeCheck", a.ignore_item_code_check)
        d1 == IF Truthy(a.key) THEN Put(d0, "key", a.key) ELSE d0
        d2 == Put(d1, "content", [positions |-> PyList(<<>>),
                                  checkClose |-> [payments |-> PyList(<<>>)]])
        d3 == Put2(d2, "content", "correctionType", a.correction_type)
        d4 == Put2(d3, "content", "type", a.type_)
        d5 == Put2(d4, "content", "customerContact", a.customer_contact)
        sums == [ffdVersion |-> PyInt(4),
                 causeDocumentDate |-> isoformat(a.cause_document_date),
                 causeDocumentNumber |-> a.cause_document_number,
                 totalSum |-> float(a.total_sum),
                 vat1Sum |-> float(a.vat_1_sum),
                 vat2Sum |-> float(a.vat_2_sum),
                 vat3Sum |-> float(a.vat_3_sum),
                 vat4Sum |-> float(a.vat_4_sum),
                 vat5Sum |-> float(a.vat_5_sum),
                 vat6Sum |-> float(a.vat_6_sum)]
        d6 == Put(d5, "content", sums @@ d5["content"])
    IN  IF ~In(a.correction_type, {0, 1})
            THEN [doc |-> d2, err |-> ValidationError("Incorrect correction correction_type")]
        ELSE IF ~In(a.type_, {1, 3})
            THEN [doc |-> d3, err |-> ValidationError("Incorrect correction Type")]
        ELSE IF ~(phone_is_valid(a.customer_contact) \/ email_is_valid(a.customer_contact))
            THEN [doc |-> d4, err |-> ValidationError("Incorrect correction customer_contact")]
        ELSE [doc |-> d6, err |-> Ok]

----------------------------------------------------------------------------
(* Signing and transport *)

\* no request was handed to the transport
NoRequest == [method |-> "none"]

\* requests.post(url, json=document, headers={'X-Signature': sign(document)}):
\* the signature is taken over json.dumps(document), whatever document is
Post(url, document) ==
    [method |-> "POST", url |-> url, json |-> document, signed |-> document]

\* requests.get(.../{inn}/status/{document_id})
Get(url, id_) == [method |-> "GET", url |-> url, inn |-> Inn, document_id |-> id_]

\* the status checks: the identifier is validated, then the request is made
get_status(url, id_) ==
    IF ~Truthy(length_is_valid(id_, PyInt(1), PyInt(32)))
    THEN [wire |-> NoRequest, err |-> ValidationError("Invalid order identifier")]
    ELSE [wire |-> Get(url, id_), err |-> Ok]

----------------------------------------------------------------------------
(* The calls made on the client: arguments *)

MaxPositions == 2
MaxPayments == 1
MaxLen == 4
MaxDigits == 11

Email == Str(<<"t", "@", "e", ".", "r", "u">>)
Phone == Str(<<"+", "7", "9", "9", "9", "1", "2", "3", "4", "5", "6", "7">>)
Word == Str(<<"a", "b", "c">>)

\* create_order(id_, type_, customer_contact, taxation_system), ffd_version=2
OrderArgs ==
    [id_ |-> Str(<<"A", "1">>), type_ |-> PyInt(1), customer_contact |-> Email,
     taxation_system |-> PyInt(0), group |-> None, key |-> None,
     ffd_version |-> PyInt(2), ignore_item_code_check |-> PyInt(0)]

CreateOrderArgs ==
    {[OrderArgs EXCEPT !.type_ = PyInt(ty), !.taxation_system = PyInt(tx),
                       !.customer_contact = c, !.ffd_version = PyInt(f)] :
        ty \in {1, 5}, tx \in {0, 6}, c \in {Email, Word}, f \in {2, 3}}
    \cup {[OrderArgs EXCEPT !.id_ = Str(<<"B", "2">>), !.type_ = PyInt(4),
                            !.customer_contact = Phone, !.taxation_system = PyInt(5),
                            !.group = Str(<<"g">>), !.key = Str(<<"k">>),
                            !.ffd_version = PyInt(4)]}

\* add_position_to_order(quantity, price, tax, text) with every default
PositionArgs ==
    [quantity |-> PyInt(2), price |-> PyDecimal(1050, 2), tax |-> PyInt(1),
     text |-> Str(<<"W">>), payment_method_type |-> PyInt(4),
     payment_subject_type |-> PyInt(1), supplier_inn |-> None,
     supplier_phone_numbers |-> None, supplier_name |-> None, agent_type |-> None,
     payment_transfer_operator_phone_numbers |-> None, payment_agent_operation |-> None,
     payment_agent_phone_numbers |-> None, payment_operator_phone_numbers |-> None,
     payment_operator_name |-> None, payment_operator_address |-> None,
     payment_operator_inn |-> None, unit_of_measurement |-> None,
     additional_attribute |-> None, manufacturer_country_code |-> None,
     customs_declaration_number |-> None, excise |-> None, tax_sum |-> None,
     quantity_measurement_unit |-> None, item_code |-> None, planned_status |-> None,
     fractional_quantity_numerator |-> None, fractional_quantity_denominator |-> None,
     industry_attribute_foivId |-> None, industry_attribute_cause_document_date |-> None,
     industry_attribute_cause_document_number |-> None, industry_attribute_value |-> None,
     barcodes_ean8 |-> None, barcodes_ean13 |-> None, barcodes_itf14 |-> None,
     barcodes_gs1 |-> None, barcodes_mi |-> None, barcodes_egais20 |-> None,
     barcodes_egais30 |-> None, barcodes_f1 |-> None, barcodes_f2 |-> None,
     barcodes_f3 |-> None, barcodes_f4 |-> None, barcodes_f5 |-> None,
     barcodes_f6 |-> None, unit_tax_sum |-> None]

AddPositionArgs ==
    {PositionArgs,
     [PositionArgs EXCEPT !.payment_subject_type = PyInt(99)],
     [PositionArgs EXCEPT !.tax = PyInt(7)],
     [PositionArgs EXCEPT !.text = Str(<<"V">>), !.agent_type = PyInt(1),
                          !.unit_of_measurement = Str(Rep("u", 17)),
                          !.item_code = Str(<<"c">>)],
     [PositionArgs EXCEPT !.payment_agent_operation = Str(Rep("o", 25))],
     [PositionArgs EXCEPT !.payment_agent_phone_numbers = PyList(<<Phone>>)]}

\* add_payment_to_order(type_, amount)
AddPaymentArgs ==
    {[type_ |-> PyInt(1), amount |-> PyDecimal(2100, 2)],
     [type_ |-> PyInt(2), amount |-> PyDecimal(500, 2)],
     [type_ |-> PyInt(3), amount |-> PyDecimal(2100, 2)],
     [type_ |-> PyInt(2), amount |-> PyFloat(2100, 2)]}

\* add_agent_to_order() with every default
AgentArgs ==
    [agent_type |-> None, pay_TOP |-> None, pay_AO |-> None, pay_APN |-> None,
     pay_OPN |-> None, pay_ON |-> None, pay_OA |-> None, pay_Op_INN |-> None,
     sup_PN |-> None, automat_number |-> None, settlement_address |-> None,
     settlement_place |-> None]

AddAgentArgs ==
    {AgentArgs,
     [AgentArgs EXCEPT !.agent_type = PyInt(1)],
     [AgentArgs EXCEPT !.agent_type = PyInt(7)],
     [AgentArgs EXCEPT !.agent_type = PyInt(1), !.pay_AO = Str(Rep("o", 25))]}

\* add_user_attribute(name, value)
AddUserAttributeArgs ==
    {[name |-> Str(<<"n">>), value |-> Str(<<"v">>)],
     [name |-> Str(Rep("x", 65)), value |-> Str(<<"v">>)],
     [name |-> Str(Rep("x", 60)), value |-> Str(Rep("y", 180))]}

\* get_order_status(id_) and the correction status checks
StatusArgs == {[id_ |-> Str(<<"A", "1">>)], [id_ |-> Str(Rep("i", 33))]}

\* create_correction(...)
CorrectionArgs ==
    [id_ |-> Str(<<"C", "1">>), correction_type |-> PyInt(0), type_ |-> PyInt(1),
     description |-> Str(<<"d">>), cause_document_date |-> PyDate(2020, 1, 31),
     cause_document_number |-> Str(<<"7">>), total_sum |-> PyInt(10),
     cash_sum |-> PyInt(10), e_cash_sum |-> PyInt(0), pre_payment_sum |-> PyInt(0),
     post_payment_sum |-> PyInt(0), other_payment_sum |-> PyInt(0),
     tax_1_sum |-> PyDecimal(167, 2), tax_2_sum |-> PyInt(0), tax_3_sum |-> PyInt(0),
     tax_4_sum |-> PyInt(0), tax_5_sum |-> PyInt(0), tax_6_sum |-> PyInt(0),
     taxation_system |-> PyInt(1), group |-> None, key |-> None]

CreateCorrectionArgs ==
    {CorrectionArgs, [CorrectionArgs EXCEPT !.type_ = PyInt(2)]}

\* create_correction12(...)
Correction12Args ==
    [id_ |-> Str(<<"C", "2">>), correction_type |-> PyInt(1), type_ |-> PyInt(3),
     cause_document_date |-> PyDate(2021, 12, 1), cause_document_number |-> Str(<<"8">>),
     total_sum |-> PyDecimal(2100, 2), customer_contact |-> Email,
     vat_1_sum |-> PyInt(0), vat_2_sum |-> PyInt(0), vat_3_sum |-> PyInt(0),
     vat_4_sum |-> PyInt(0), vat_5_sum |-> PyInt(0), vat_6_sum |-> PyInt(0),
     group |-> None, key |-> None, ignore_item_code_check |-> PyInt(0)]

CreateCorrection12Args ==
    {Correction12Args, [Correction12Args EXCEPT !.customer_contact = Word]}

\* add_position_to_correction has every parameter of add_position_to_order
\* but unit_of_measurement
CorrectionPosition(a) ==
    [f \in (DOMAIN a) \ {"unit_of_measurement"} |-> a[f]]

AddCorrectionPositionArgs ==
    {CorrectionPosition(PositionArgs),
     CorrectionPosition([PositionArgs EXCEPT !.payment_subject_type = PyInt(99)])}

AddCorrectionPaymentArgs ==
    {[type_ |-> PyInt(2), amount |-> PyDecimal(2100, 2)],
     [type_ |-> PyInt(3), amount |-> PyDecimal(2100, 2)]}

\* the arguments of the order calls when both kinds of document are built
FewCreateOrderArgs == {OrderArgs, [OrderArgs EXCEPT !.taxation_system = PyInt(6)]}
FewAddPositionArgs == {PositionArgs, [PositionArgs EXCEPT !.payment_subject_type = PyInt(99)]}
FewAddPaymentArgs == {[type_ |-> PyInt(1), amount |-> PyDecimal(2100, 2)]}
FewAddAgentArgs == {[AgentArgs EXCEPT !.agent_type = PyInt(1)]}
FewAddUserAttributeArgs == {[name |-> Str(<<"n">>), value |-> Str(<<"v">>)]}
FewStatusArgs == {[id_ |-> Str(<<"A", "1">>)]}

\* orders of both schema revisions, and positions that name the attributes of
\* both: within their limits, and with a unit_of_measurement past its limit
SchemaOrderArgs ==
    {[OrderArgs EXCEPT !.ffd_version = PyInt(f)] : f \in {2, 3, 4}}

SchemaPositionArgs ==
    {PositionArgs,
     [PositionArgs EXCEPT !.text = Str(<<"U">>),
                          !.unit_of_measurement = Str(<<"k", "g">>),
                          !.quantity_measurement_unit = PyInt(10),
                          !.item_code = Str(<<"c">>),
                          !.fractional_quantity_numerator = PyInt(1),
                          !.fractional_quantity_denominator = PyInt(2),
                          !.industry_attribute_foivId = Str(<<"0", "1">>),
                          !.barcodes_f1 = Str(<<"b">>)],
     [PositionArgs EXCEPT !.text = Str(<<"V">>),
                          !.unit_of_measurement = Str(Rep("u", 17)),
                          !.planned_status = PyInt(3)]}

\* valid phone numbers of 7 and of 16 characters
ShortPhone == Str(<<"1", "2", "3", "4", "5", "6", "7">>)
LongPhone ==
    Str(<<"+", "7", "(", "9", "9", "9", ")", "1", "2", "3", "-", "4", "5", "-", "6", "7">>)

\* fifteen valid phone numbers: 13 * (12 + 4) + (7 + 4) + (16 + 4) = 239
ManyPhones == PyList([i \in 1..13 |-> Phone] \o <<ShortPhone, LongPhone>>)

\* positions with a supplier: names at and past the ceiling left by no phone
\* number, by two of 12 characters, by fifteen and by sixteen
SupplierPositionArgs ==
    {[PositionArgs EXCEPT !.supplier_phone_numbers = PyList(<<Phone, Phone>>),
                          !.supplier_name = Str(Rep("N", n))] : n \in {207, 208}}
    \cup {[PositionArgs EXCEPT !.supplier_name = Str(Rep("N", n))] : n \in {239, 240}}
    \cup {[PositionArgs EXCEPT !.supplier_phone_numbers = ManyPhones,
                               !.supplier_name = Str(Rep("N", 5))],
          [PositionArgs EXCEPT !.supplier_phone_numbers =
                                   PyList(ManyPhones.v \o <<ShortPhone>>),
                               !.supplier_name = Str(<<"N">>)],
          [PositionArgs EXCEPT !.supplier_phone_numbers = PyList(<<Phone, Word>>),
                               !.supplier_name = Str(<<"N">>)]}

\* agent types in and around the documented 0..6, for the order and a position
AgentTypes == {-1, 0, 6, 7}
TypedAgentArgs == {[AgentArgs EXCEPT !.agent_type = PyInt(n)] : n \in AgentTypes}
TypedPositionArgs == {[PositionArgs EXCEPT !.agent_type = PyInt(n)] : n \in AgentTypes}

\* user attributes at and around the limits of 64 and 234 characters
SizedUserAttributeArgs ==
    {[name |-> Str(Rep("x", n)), value |-> Str(Rep("y", v))] :
        <<n, v>> \in {<<1, 1>>, <<0, 1>>, <<1, 0>>, <<64, 170>>, <<64, 171>>,
                      <<65, 1>>, <<60, 180>>}}

\* length_is_valid(obj, min_, max_): strings of up to MaxLen characters, each
\* bound absent or one of 0..MaxLen
LengthArgs ==
    [obj : {Str(Rep("a", n)) : n \in 0..MaxLen},
     min_ : {None} \cup {PyInt(n) : n \in 0..MaxLen},
     max_ : {None} \cup {PyInt(n) : n \in 0..MaxLen}]

\* phone_is_valid(phone): a prefix, an area code, up to MaxDigits digits or a
\* separated number, and what may follow them
PhonePrefixes == {<<>>, <<"8">>, <<"+", "7">>, <<"+", "7", " ">>}
PhoneAreas == {<<>>, <<"(", "9", "9", "9", ")">>, <<"9", "9", "9", "-">>}
PhoneTails ==
    {Rep("1", n) : n \in 0..MaxDigits}
    \cup {<<"1", "2", "3", "-", "4", "5", "-", "6", "7">>}
PhoneSuffixes == {<<>>, <<"\n">>, <<"\n", "\n">>, <<"a">>}
PhoneArgs ==
    {[phone |-> Str(p \o a \o t \o x)] :
        p \in PhonePrefixes, a \in PhoneAreas, t \in PhoneTails, x \in PhoneSuffixes}

\* orders whose identifier is empty, short or of 33 characters, and whose
\* contact is an address, a phone number, a lone '@', an address of 70
\* characters or a word
LongEmail == Str(Rep("x", 64) \o Email.v)
ContactOrderArgs ==
    {[OrderArgs EXCEPT !.id_ = Str(Rep("i", n)), !.customer_contact = c] :
        n \in {0, 2, 33}, c \in {Email, Phone, Str(<<"@">>), LongEmail, Word}}

\* positions that supply one optional argument, or two that go together
PartPositionArgs ==
    {PositionArgs,
     [PositionArgs EXCEPT !.unit_tax_sum = PyInt(5)],
     [PositionArgs EXCEPT !.unit_tax_sum = PyInt(5), !.tax_sum = PyInt(3)],
     [PositionArgs EXCEPT !.item_code = Str(<<"c">>)],
     [PositionArgs EXCEPT !.item_code = Str(<<"c">>), !.planned_status = PyInt(3)],
     [PositionArgs EXCEPT !.payment_agent_phone_numbers = PyList(<<Phone>>)],
     [PositionArgs EXCEPT !.fractional_quantity_denominator = PyInt(2)],
     [PositionArgs EXCEPT !.barcodes_ean13 = Str(Rep("3", 13))],
     [PositionArgs EXCEPT !.barcodes_ean8 = Str(Rep("8", 8)),
                          !.barcodes_ean13 = Str(Rep("3", 13))],
     [PositionArgs EXCEPT !.barcodes_egais20 = Str(Rep("2", 23)),
                          !.barcodes_egais30 = Str(Rep("3", 14))]}
    \cup {[PositionArgs EXCEPT !.supplier_inn = Str(Rep("7", n))] : n \in {9, 12, 13}}

\* agents that supply settlement_address alone, and with the two arguments
\* checked together with it
PartAgentArgs ==
    {[AgentArgs EXCEPT !.settlement_address = Str(<<"s">>)],
     [AgentArgs EXCEPT !.settlement_address = Str(<<"s">>),
                       !.automat_number = Str(<<"1">>),
                       !.settlement_place = Str(<<"p">>)]}

\* payments of a legal and of an illegal type, whose amount is a Decimal of
\* two or of three fractional digits, a float or an int
PaymentArgs ==
    [type_ : {PyInt(1), PyInt(3), PyInt(16)},
     amount : {PyDecimal(2100, 2), PyDecimal(10505, 3), PyFloat(2100, 2), PyInt(21)}]

NoArgs == <<>>

----------------------------------------------------------------------------
(* The calls made on the client: actions *)

\* len(request['content']['positions']), 0 without such a list
NumPositions(request) ==
    IF Lookup(request, "positions").err = Ok
    THEN Len(request["content"]["positions"].v) ELSE 0

\* len(request['content']['checkClose']['payments']), 0 without such a list
NumPayments(request) ==
    IF Lookup(request, "checkClose").err = Ok
       /\ "payments" \in DOMAIN request["content"]["checkClose"]
    THEN Len(request["content"]["checkClose"]["payments"].v) ELSE 0

Called(op, a, err) == [op |-> op, args |-> a, err |-> err]

\* a call of a function of validators.py and the value it returned
Returned(op, a, value) == [op |-> op, args |-> a, err |-> Ok, ret |-> value]

Init ==
    /\ order = None
    /\ correction = None
    /\ last = Called("__init__", NoArgs, Ok)
    /\ wire = NoRequest

CreateOrder(Args) ==
    \E a \in Args :
        /\ order' = create_order(a).doc
        /\ last' = Called("create_order", a, create_order(a).err)
        /\ wire' = NoRequest
        /\ UNCHANGED correction

AddPositionToOrder(Args) ==
    \E a \in Args :
        /\ NumPositions(order) < MaxPositions
        /\ order' = add_position_to_order(order, a).doc
        /\ last' = Called("add_position_to_order", a, add_position_to_order(order, a).err)
        /\ wire' = NoRequest
        /\ UNCHANGED correction

AddPaymentToOrder(Args) ==
    \E a \in Args :
        /\ NumPayments(order) < MaxPayments
        /\ order' = add_payment_to_order(order, a).doc
        /\ last' = Called("add_payment_to_order", a, add_payment_to_order(order, a).err)
        /\ wire' = NoRequest
        /\ UNCHANGED correction

AddAgentToOrder(Args) ==
    \E a \in Args :
        /\ order' = add_agent_to_order(order, a).doc
        /\ last' = Called("add_agent_to_order", a, add_agent_to_order(order, a).err)
        /\ wire' = NoRequest
        /\ UNCHANGED correction

AddUserAttribute(Args) ==
    \E a \in Args :
        /\ order' = add_user_attribute(order, a).doc
        /\ last' = Called("add_user_attribute", a, add_user_attribute(order, a).err)
        /\ wire' = NoRequest
        /\ UNCHANGED correction

\* a post: the signing key is read (which can fail), the document is signed
\* and posted; no check is made of the document
Send(op, url, document) ==
    \E key_readable \in BOOLEAN :
        /\ wire' = IF key_readable THEN Post(url, document) ELSE NoRequest
        /\ last' = Called(op, NoArgs, IF key_readable THEN Ok ELSE IOError)
        /\ UNCHANGED <<order, correction>>

SendOrder == Send("send_order", "/api/v2/documents/", order)

PostCorrection == Send("post_correction", "/api/v2/corrections/", correction)

PostCorrection12 == Send("post_correction12", "/api/v2/correction12/", correction)

Status(op, url, Args) ==
    \E a \in Args :
        /\ wire' = get_status(url, a.id_).wire
        /\ last' = Called(op, a, get_status(url, a.id_).err)
        /\ UNCHANGED <<order, correction>>

GetOrderStatus(Args) == Status("get_order_status", "/api/v2/documents/", Args)

GetCorrectionStatus(Args) == Status("get_correction_status", "/api/v2/corrections/", Args)

GetCorrectionStatus12(Args) == Status("get_correction_status12", "/api/v2/correction12/", Args)

\* create_correction on a client that keeps one document of either kind
CreateCorrectionInOneSlot(Args) ==
    \E a \in Args :
        /\ correction' = create_correction(a).doc
        /\ last' = Called("create_correction", a, create_correction(a).err)
        /\ wire' = NoRequest
        /\ order' = None

CreateCorrection(Args) ==
    \E a \in Args :
        /\ correction' = create_correction(a).doc
        /\ last' = Called("create_correction", a, create_correction(a).err)
        /\ wire' = NoRequest
        /\ UNCHANGED order

CreateCorrection12(Args) ==
    \E a \in Args :
        /\ correction' = create_correction12(a).doc
        /\ last' = Called("create_correction12", a, create_correction12(a).err)
        /\ wire' = NoRequest
        /\ UNCHANGED order

AddPositionToCorrection(Args) ==
    \E a \in Args :
        /\ NumPositions(correction) < MaxPositions
        /\ correction' = add_position_to_correction(correction, a).doc
        /\ last' = Called("add_position_to_correction", a, add_position_to_correction(correction, a).err)
        /\ wire' = NoRequest
        /\ UNCHANGED order

AddPaymentToCorrection(Args) ==
    \E a \in Args :
        /\ NumPayments(correction) < MaxPayments
        /\ correction' = add_payment_to_correction(correction, a).doc
        /\ last' = Called("add_payment_to_correction", a, add_payment_to_correction(correction, a).err)
        /\ wire' = NoRequest
        /\ UNCHANGED order

\* the calls that build and send an order
Next ==
    \/ CreateOrder(CreateOrderArgs)
    \/ AddPositionToOrder(AddPositionArgs)
    \/ AddPaymentToOrder(AddPaymentArgs)
    \/ AddAgentToOrder(AddAgentArgs)
    \/ AddUserAttribute(AddUserAttributeArgs)
    \/ SendOrder
    \/ GetOrderStatus(StatusArgs)

Spec == Init /\ [][Next]_vars

\* the calls of both kinds of document on one client
NextKinds ==
    \/ CreateOrder(FewCreateOrderArgs)
    \/ AddPositionToOrder(FewAddPositionArgs)
    \/ AddPaymentToOrder(FewAddPaymentArgs)
    \/ AddAgentToOrder(FewAddAgentArgs)
    \/ AddUserAttribute(FewAddUserAttributeArgs)
    \/ SendOrder
    \/ GetOrderStatus(FewStatusArgs)
    \/ CreateCorrection(CreateCorrectionArgs)
    \/ PostCorrection
    \/ GetCorrectionStatus(FewStatusArgs)
    \/ CreateCorrection12(CreateCorrection12Args)
    \/ PostCorrection12
    \/ AddPositionToCorrection(AddCorrectionPositionArgs)
    \/ AddPaymentToCorrection(AddCorrectionPaymentArgs)
    \/ GetCorrectionStatus12(FewStatusArgs)

SpecKinds == Init /\ [][NextKinds]_vars

\* an order of either schema revision and the calls that fill it
NextSchema ==
    \/ CreateOrder(SchemaOrderArgs)
    \/ AddPositionToOrder(SchemaPositionArgs)
    \/ AddPaymentToOrder(FewAddPaymentArgs)
    \/ AddAgentToOrder(FewAddAgentArgs)
    \/ AddUserAttribute(FewAddUserAttributeArgs)
    \/ SendOrder

SpecSchema == Init /\ [][NextSchema]_vars

\* an order and positions that name a supplier
NextSupplier ==
    \/ CreateOrder(FewCreateOrderArgs)
    \/ AddPositionToOrder(SupplierPositionArgs)
    \/ AddPaymentToOrder(FewAddPaymentArgs)
    \/ SendOrder

SpecSupplier == Init /\ [][NextSupplier]_vars

\* an order, its agent, the agents of its positions and its user attribute
NextAttributes ==
    \/ CreateOrder(FewCreateOrderArgs)
    \/ AddPositionToOrder(TypedPositionArgs)
    \/ AddAgentToOrder(TypedAgentArgs)
    \/ AddUserAttribute(SizedUserAttributeArgs)
    \/ SendOrder

SpecAttributes == Init /\ [][NextAttributes]_vars

\* orders initialized with identifiers and contacts of every shape
NextContact ==
    \/ CreateOrder(ContactOrderArgs)
    \/ AddPaymentToOrder(FewAddPaymentArgs)
    \/ SendOrder
    \/ GetOrderStatus(StatusArgs)

SpecContact == Init /\ [][NextContact]_vars

\* orders of either schema revision filled by calls that supply part of the
\* optional arguments
NextParts ==
    \/ CreateOrder(SchemaOrderArgs)
    \/ AddPositionToOrder(PartPositionArgs)
    \/ AddAgentToOrder(PartAgentArgs)
    \/ SendOrder

SpecParts == Init /\ [][NextParts]_vars

\* an order, with or without positions, and the payments added to it
NextPayments ==
    \/ CreateOrder(FewCreateOrderArgs)
    \/ AddPositionToOrder(FewAddPositionArgs)
    \/ AddPaymentToOrder(PaymentArgs)
    \/ SendOrder

SpecPayments == Init /\ [][NextPayments]_vars

\* the functions of validators.py called on their own
LengthIsValid(Args) ==
    \E a \in Args :
        /\ last' = Returned("length_is_valid", a, length_is_valid(a.obj, a.min_, a.max_))
        /\ UNCHANGED <<order, correction, wire>>

PhoneIsValid(Args) ==
    \E a \in Args :
        /\ last' = Returned("phone_is_valid", a, PyBool(phone_is_valid(a.phone)))
        /\ UNCHANGED <<order, correction, wire>>

NextValidators ==
    \/ LengthIsValid(LengthArgs)
    \/ PhoneIsValid(PhoneArgs)

SpecValidators == Init /\ [][NextValidators]_vars

----------------------------------------------------------------------------
(* Properties of the order builder *)

\* the validated, fully initialized order: create_order returned normally
Initialized(request) ==
    /\ request # None
    /\ "customerContact" \in DOMAIN request["content"]

\* content.positions and content.checkClose.payments, empty when absent
Positions(request) ==
    IF Lookup(request, "positions").err = Ok
    THEN request["content"]["positions"].v ELSE <<>>

Payments(request) ==
    IF NumPayments(request) > 0
    THEN request["content"]["checkClose"]["payments"].v ELSE <<>>

\* additionalUserAttribute as a one-element sequence, empty when the key is absent
UserAttribute(request) ==
    IF Lookup(request, "additionalUserAttribute").err = Ok
    THEN <<request["content"]["additionalUserAttribute"]>> ELSE <<>>

Failed(op) == last'.op = op /\ last'.err # Ok
Succeeded(op) == last'.op = op /\ last'.err = Ok

\* C1: a create_order call that fails validation leaves the in-progress
\* order document exactly as it was before the call.
C1_FailedCreateOrderKeepsOrder ==
    [][Failed("create_order") => order' = order]_vars

\* C2: whenever add_position_to_order fails, no position is appended and the
\* rest of the order document is unchanged.
C2_FailedAddPositionKeepsOrder ==
    [][Failed("add_position_to_order") => order' = order]_vars

\* C2 witness: on an initialized order that holds a position, a call with
\* payment_subject_type=99 has failed.
C2_Witness ==
    /\ last.op = "add_position_to_order"
    /\ last.args.payment_subject_type = PyInt(99)
    /\ last.err = ValidationError("Invalid Position payment_method_type or payment_subject_type")
    /\ Initialized(order)
    /\ Len(Positions(order)) = 1

\* C3: whenever add_agent_to_order fails, none of the arguments of that call
\* has been written: the document is identical to the one before the call.
C3_FailedAddAgentKeepsOrder ==
    [][Failed("add_agent_to_order") => order' = order]_vars

\* C4: whenever add_user_attribute fails, additionalUserAttribute is exactly
\* what it was before the call (the same name and value, or still absent).
C4_FailedUserAttributeKeepsAttribute ==
    [][Failed("add_user_attribute") => UserAttribute(order') = UserAttribute(order)]_vars

\* C5: until the next successful create_order, positions and payments are
\* append-only: a successful add_position_to_order appends one position at
\* the end and leaves the payments, a successful add_payment_to_order appends
\* one payment at the end and leaves the positions, and every other call,
\* failed calls included, leaves both lists as they were.
C5_AppendOnly ==
    [][~Succeeded("create_order") =>
        IF Succeeded("add_position_to_order")
        THEN /\ Len(Positions(order')) = Len(Positions(order)) + 1
             /\ SubSeq(Positions(order'), 1, Len(Positions(order))) = Positions(order)
             /\ Payments(order') = Payments(order)
        ELSE IF Succeeded("add_payment_to_order")
        THEN /\ Len(Payments(order')) = Len(Payments(order)) + 1
             /\ SubSeq(Payments(order'), 1, Len(Payments(order))) = Payments(order)
             /\ Positions(order') = Positions(order)
        ELSE Positions(order') = Positions(order) /\ Payments(order') = Payments(order)
    ]_vars

\* C6: after every successful create_order the order has empty positions and
\* payments and holds nothing but what the arguments of this call and the
\* configured inn determine.
C6_CreateOrderStartsAfresh ==
    (last.op = "create_order" /\ last.err = Ok) =>
        /\ DOMAIN order = {"id", "inn", "ignoreItemCodeCheck", "content"}
                \cup (IF Truthy(last.args.group) THEN {"group"} ELSE {})
                \cup (IF Truthy(last.args.key) THEN {"key"} ELSE {})
        /\ order["id"] = last.args.id_
        /\ order["inn"] = Inn
        /\ order["ignoreItemCodeCheck"] = last.args.ignore_item_code_check
        /\ Truthy(last.args.group) => order["group"] = last.args.group
        /\ Truthy(last.args.key) => order["key"] = last.args.key
        /\ order["content"] =
              [ffdVersion |-> last.args.ffd_version,
               type |-> last.args.type_,
               positions |-> PyList(<<>>),
               checkClose |-> [payments |-> PyList(<<>>),
                               taxationSystem |-> last.args.taxation_system],
               customerContact |-> last.args.customer_contact]

\* C6 witness: a second order, with a group and a key of its own, was created.
C6_Witness ==
    /\ last.op = "create_order" /\ last.err = Ok
    /\ last.args.id_ = Str(<<"B", "2">>)
    /\ order["group"] = Str(<<"g">>)
    /\ Positions(order) = <<>> /\ Payments(order) = <<>>

\* C7 as stated: whenever type_ is outside {1,2,3,4} the error raised is the
\* one for the order type, whatever the other arguments, ffd_version included.
C7_TypeErrorWins ==
    (last.op = "create_order" /\ ~In(last.args.type_, {1, 2, 3, 4})) =>
        last.err = ValidationError("Incorrect order Type")

\* C7 amended: create_order checks ffd_version, then type_, then
\* taxation_system, then customer_contact, and raises the error of the first
\* violated constraint only; whenever ffd_version is 2 or 4 and type_ is
\* outside {1,2,3,4} the error is the one for the order type.
C7_FirstViolationWins ==
    last.op = "create_order" =>
        LET a == last.args
            ffd_ok == Eq(a.ffd_version, 2) \/ Eq(a.ffd_version, 4)
            type_ok == In(a.type_, {1, 2, 3, 4})
            taxation_ok == In(a.taxation_system, 0..5)
            contact_ok == ContainsAt(a.customer_contact) \/ phone_is_valid(a.customer_contact)
        IN  /\ ~ffd_ok => last.err = ValidationError("Incorrect ffd version")
            /\ ffd_ok /\ ~type_ok => last.err = ValidationError("Incorrect order Type")
            /\ ffd_ok /\ type_ok /\ ~taxation_ok
                   => last.err = ValidationError("Incorrect taxationSystem")
            /\ ffd_ok /\ type_ok /\ taxation_ok /\ ~contact_ok
                   => last.err = ValidationError("Incorrect customer Contact")
            /\ ffd_ok /\ type_ok /\ taxation_ok /\ contact_ok => last.err = Ok

\* C7 witness: type_=5 with an invalid taxation_system and customer_contact.
C7_Witness ==
    /\ last.op = "create_order"
    /\ last.args.type_ = PyInt(5)
    /\ last.args.taxation_system = PyInt(6)
    /\ last.args.customer_contact = Word
    /\ last.args.ffd_version = PyInt(2)
    /\ last.err = ValidationError("Incorrect order Type")

\* C8: send_order fails when no order is in progress: nothing is signed and
\* nothing is handed to the transport.
C8_SendWithoutOrderFails ==
    (last.op = "send_order" /\ order = None) => (last.err # Ok /\ wire = NoRequest)

\* C9: a submitted order is a read-only snapshot: an add_position_to_order,
\* add_payment_to_order, add_agent_to_order or add_user_attribute call that
\* follows a send_order leaves the submitted document unchanged.
C9_SubmittedOrderIsReadOnly ==
    [][(/\ last.op = "send_order" /\ last.err = Ok
        /\ last'.op \in {"add_position_to_order", "add_payment_to_order",
                         "add_agent_to_order", "add_user_attribute"})
       => order' = order]_vars

OrderOps ==
    {"create_order", "add_position_to_order", "add_payment_to_order",
     "add_agent_to_order", "add_user_attribute", "send_order", "get_order_status"}

CorrectionOps ==
    {"create_correction", "create_correction12", "add_position_to_correction",
     "add_payment_to_correction", "post_correction", "post_correction12",
     "get_correction_status", "get_correction_status12"}

\* C10 as stated: the in-progress order and the in-progress correction are
\* never both present.
C10_OneKindAtATime == order = None \/ correction = None

\* C10 amended: the client holds at most one in-progress order and at most
\* one in-progress correction, each in a slot of its own; both can be
\* present, and a call of one kind is carried out on its own document and
\* leaves the document of the other kind as it was.
C10_KindsAreIndependent ==
    [][/\ last'.op \in OrderOps => correction' = correction
       /\ last'.op \in CorrectionOps => order' = order]_vars

\* C10 witness: with an order holding a position in progress, a correction
\* was created and a position added to it.
C10_Witness ==
    /\ Initialized(order) /\ Len(Positions(order)) = 1
    /\ correction # None /\ Len(Positions(correction)) = 1
    /\ last.op = "add_position_to_correction" /\ last.err = Ok

\* the keys of a position that only the FFD 1.2 schema has
FFD12Keys ==
    {"quantityMeasurementUnit", "itemCode", "fractionalQuantity",
     "industryAttribute", "barcodes"}

\* content.ffdVersion as a one-element sequence, empty when there is none
SchemaRevision(request) ==
    IF Lookup(request, "ffdVersion").err = Ok
    THEN <<request["content"]["ffdVersion"]>> ELSE <<>>

\* the position appended by the call that just returned
Appended(request) == Positions(request)[Len(Positions(request))]

\* C11: no call but create_order changes content.ffdVersion, and the
\* revision gates every appended position: a position appended while
\* ffdVersion is 2 has none of the FFD 1.2 keys, whatever arguments were
\* passed, and one appended while ffdVersion is 4 has no unitOfMeasurement.
C11_SchemaRevisionGates ==
    [][/\ last'.op # "create_order" => SchemaRevision(order') = SchemaRevision(order)
       /\ Succeeded("add_position_to_order") =>
            /\ Eq(order["content"]["ffdVersion"], 2) =>
                    (DOMAIN Appended(order')) \cap FFD12Keys = {}
            /\ Eq(order["content"]["ffdVersion"], 4) =>
                    "unitOfMeasurement" \notin DOMAIN Appended(order')]_vars

\* C11 witness: under ffdVersion 2 a position was appended from arguments
\* that name FFD 1.2 attributes; it holds unitOfMeasurement and none of them.
C11_Witness ==
    /\ last.op = "add_position_to_order" /\ last.err = Ok
    /\ last.args.item_code # None /\ last.args.barcodes_f1 # None
    /\ Eq(order["content"]["ffdVersion"], 2)
    /\ "unitOfMeasurement" \in DOMAIN Appended(order)
    /\ (DOMAIN Appended(order)) \cap FFD12Keys = {}

\* the field k of the dictionary d, when present, is one of the integers ns
LegalIfPresent(d, k, ns) == k \in DOMAIN d => In(d[k], ns)

\* C12: in every reachable state of the order document every enumerated
\* field that is present holds a legal value: ffdVersion in {2,4}, type in
\* {1..4}, taxationSystem in {0..5}, and for every position tax in {1..6},
\* paymentMethodType in {1..7}, paymentSubjectType in {1..13}, and for every
\* payment type in {1,2,14,15,16}.
C12_EnumsAreLegal ==
    order # None =>
        /\ LegalIfPresent(order["content"], "ffdVersion", {2, 4})
        /\ LegalIfPresent(order["content"], "type", {1, 2, 3, 4})
        /\ "checkClose" \in DOMAIN order["content"] =>
                LegalIfPresent(order["content"]["checkClose"], "taxationSystem", 0..5)
        /\ \A i \in 1..Len(Positions(order)) :
                /\ In(Positions(order)[i]["tax"], 1..6)
                /\ In(Positions(order)[i]["paymentMethodType"], 1..7)
                /\ In(Positions(order)[i]["paymentSubjectType"], 1..13)
        /\ \A i \in 1..Len(Payments(order)) :
                In(Payments(order)[i]["type"], {1, 2, 14, 15, 16})

\* C12 witness: an order that holds a position and a payment just refused a
\* position whose tax is not one of the legal values.
C12_Witness ==
    /\ last.op = "add_position_to_order" /\ last.err # Ok
    /\ last.args.tax = PyInt(7)
    /\ NumPositions(order) > 0 /\ NumPayments(order) > 0
    /\ "taxationSystem" \in DOMAIN order["content"]["checkClose"]

\* sum over the phone numbers p of len(p) + 4
RECURSIVE PhonesBudget(_)
PhonesBudget(phones) ==
    IF phones = <<>> THEN 0
    ELSE Len(Head(phones).v) + 4 + PhonesBudget(Tail(phones))

\* the phone numbers passed as supplier_phone_numbers, none when omitted
SupplierPhones(a) ==
    IF a.supplier_phone_numbers = None THEN <<>> ELSE a.supplier_phone_numbers.v

\* C13: for every list of valid supplier phone numbers passed to
\* add_position_to_order together with a supplier_name, the name is accepted
\* (and stored in supplierInfo.name) exactly when
\* 1 <= len(supplier_name) <= 239 - sum of (len(p) + 4); a refused name
\* appends no position.
C13_SupplierNameCeiling ==
    [][(/\ last'.op = "add_position_to_order"
        /\ Initialized(order)
        /\ Truthy(last'.args.supplier_name)
        /\ \A i \in 1..Len(SupplierPhones(last'.args)) :
                phone_is_valid(SupplierPhones(last'.args)[i]))
       => /\ last'.err = Ok <=>
                Len(last'.args.supplier_name.v)
                    \in 1..(239 - PhonesBudget(SupplierPhones(last'.args)))
          /\ last'.err = Ok =>
                Appended(order')["supplierInfo"]["name"] = last'.args.supplier_name
          /\ last'.err # Ok => order' = order]_vars

AgentType(d) == IF "agentType" \in DOMAIN d THEN <<d["agentType"]>> ELSE <<>>

\* what the call must do with the agent type n: store 2^n for n in 0..6,
\* raise for any other integer
AgentTypeAsDocumented(n, err, stored) ==
    IF n \in 0..6 THEN err = Ok /\ stored = <<PyInt(Pow(2, n))>>
    ELSE err # Ok

\* C15: for every agent_type passed to add_agent_to_order or to
\* add_position_to_order: one of 0..6 is stored as agentType = 2^agent_type
\* (0 as 1), any other integer is refused with a validation error.
C15_AgentTypeIsPowerOfTwo ==
    [][/\ (last'.op = "add_agent_to_order" /\ Initialized(order)
            /\ last'.args.agent_type # None)
          => AgentTypeAsDocumented(last'.args.agent_type.v, last'.err,
                                   AgentType(order'["content"]))
       /\ (last'.op = "add_position_to_order" /\ Initialized(order)
            /\ last'.args.agent_type # None)
          => AgentTypeAsDocumented(last'.args.agent_type.v, last'.err,
                 IF last'.err = Ok THEN AgentType(Appended(order')) ELSE <<>>)]_vars

\* C16: for every string s and bounds min and max, each absent or a
\* non-negative integer, length_is_valid(s, min, max) is true exactly when
\* (min is absent or len(s) >= min) and (max is absent or len(s) <= max).
C16_LengthAgreesWithComparison ==
    last.op = "length_is_valid" =>
        (Truthy(last.ret) <=>
            /\ last.args.min_ = None \/ Len(last.args.obj.v) >= last.args.min_.v
            /\ last.args.max_ = None \/ Len(last.args.obj.v) <= last.args.max_.v)

\* the characters a phone number is written with
PhoneAlphabet == Digits \cup Separators \cup {"(", ")", "+"}

\* the longest string of the canonical shape: +7 and a separator, an area
\* code in parentheses and a separator, ten digits or separators
LongestPhone == 19

\* s has the canonical shape: a prefix, an area code, 7 to 10 digits or
\* separators
Canonical(s) ==
    \E p \in PhonePrefixes, a \in PhoneAreas, t \in PhoneTails :
        Len(t) \in 7..10 /\ s = p \o a \o t

\* C17: phone_is_valid returns a boolean for every string: true for every
\* string of the canonical shape, false for the empty string, for overlong
\* strings and for every string with a character outside the alphabet of
\* digits, separators, parentheses and plus.
C17_PhoneIsValidTotal ==
    last.op = "phone_is_valid" =>
        /\ last.ret \in {PyBool(TRUE), PyBool(FALSE)}
        /\ Canonical(last.args.phone.v) => last.ret = PyBool(TRUE)
        /\ last.args.phone.v = <<>> => last.ret = PyBool(FALSE)
        /\ Len(last.args.phone.v) > LongestPhone => last.ret = PyBool(FALSE)
        /\ (\E i \in 1..Len(last.args.phone.v) :
                last.args.phone.v[i] \notin PhoneAlphabet) => last.ret = PyBool(FALSE)

\* the document the initializer op builds
Built(op) == IF op = "create_order" THEN order ELSE correction

\* C18: every successfully initialized document has a device group: the
\* group the caller supplied, or a fixed sentinel name when the caller
\* omitted it, for create_order, create_correction and create_correction12.
C18_EveryDocumentHasGroup ==
    (last.op \in {"create_order", "create_correction", "create_correction12"}
     /\ last.err = Ok)
    => /\ "group" \in DOMAIN Built(last.op)
       /\ Truthy(Built(last.op)["group"])
       /\ Truthy(last.args.group) => Built(last.op)["group"] = last.args.group

\* C19: the identifier of every in-progress order has 1 to 32 characters:
\* create_order refuses an id_ that is empty or longer than 32 characters, as
\* get_order_status does before making any request.
C19_IdentifierLength ==
    /\ order # None => Len(order["id"].v) \in 1..32
    /\ (last.op \in {"create_order", "get_order_status"}
        /\ Len(last.args.id_.v) \notin 1..32)
       => last.err # Ok /\ wire = NoRequest

\* C20: after every successful create_order content.customerContact is a
\* string of 1 to 64 characters that is phone-shaped or email-shaped; a
\* contact longer than 64 characters, or one that has '@' but no address
\* shape, is refused.
C20_ContactShape ==
    last.op = "create_order" =>
        /\ last.err = Ok =>
            /\ order["content"]["customerContact"] = last.args.customer_contact
            /\ Len(last.args.customer_contact.v) \in 1..64
            /\ \/ phone_is_valid(last.args.customer_contact)
               \/ email_is_valid(last.args.customer_contact)
        /\ Len(last.args.customer_contact.v) > 64 => last.err # Ok
        /\ (ContainsAt(last.args.customer_contact)
            /\ ~email_is_valid(last.args.customer_contact)) => last.err # Ok

\* no key of the dictionary d maps to None
NoNull(d) == \A k \in DOMAIN d : d[k] # None

\* C21: no field of an in-progress order ever holds a null value: every key
\* present in the document, in its content, in each of its positions and in
\* each of its payments maps to a non-null value.
C21_NoNullField ==
    order # None =>
        /\ NoNull(order)
        /\ NoNull(order["content"])
        /\ \A i \in 1..Len(Positions(order)) : NoNull(Positions(order)[i])
        /\ \A i \in 1..Len(Payments(order)) : NoNull(Payments(order)[i])

\* the arguments of add_position_to_order that fill each optional
\* sub-structure of a position
SubStructureArgs ==
    [supplierInfo |-> {"supplier_phone_numbers", "supplier_name"},
     agentInfo |-> {"payment_transfer_operator_phone_numbers", "payment_agent_operation",
                    "payment_agent_phone_numbers", "payment_operator_phone_numbers",
                    "payment_operator_name", "payment_operator_address",
                    "payment_operator_inn"},
     fractionalQuantity |-> {"fractional_quantity_numerator",
                             "fractional_quantity_denominator"},
     industryAttribute |-> {"industry_attribute_foivId",
                            "industry_attribute_cause_document_date",
                            "industry_attribute_cause_document_number",
                            "industry_attribute_value"},
     barcodes |-> {"barcodes_ean8", "barcodes_ean13", "barcodes_itf14", "barcodes_gs1",
                   "barcodes_mi", "barcodes_egais20", "barcodes_egais30", "barcodes_f1",
                   "barcodes_f2", "barcodes_f3", "barcodes_f4", "barcodes_f5",
                   "barcodes_f6"}]

\* one of the arguments named was supplied
Supplied(a, names) == \E n \in names : Truthy(a[n])

\* C22: a position contains an optional sub-structure only when one of its
\* fields was supplied in the call, and a call that passes only the base
\* fields appends a position whose keys are exactly quantity, price, tax,
\* text, paymentMethodType (4) and paymentSubjectType (1), under either
\* schema revision.
C22_SubStructuresOnlyWhenSupplied ==
    [][(Succeeded("add_position_to_order") /\ Initialized(order))
       => /\ \A k \in DOMAIN SubStructureArgs :
                k \in DOMAIN Appended(order') => Supplied(last'.args, SubStructureArgs[k])
          /\ last'.args = PositionArgs =>
                /\ DOMAIN Appended(order') =
                       {"quantity", "price", "tax", "text", "paymentMethodType",
                        "paymentSubjectType"}
                /\ Appended(order')["paymentMethodType"] = PyInt(4)
                /\ Appended(order')["paymentSubjectType"] = PyInt(1)]_vars

\* the calls that change the order document
Mutations ==
    {"create_order", "add_position_to_order", "add_payment_to_order",
     "add_agent_to_order", "add_user_attribute"}

\* C23: every builder mutation, called on an initialized order (or
\* create_order in any state) with each optional argument present or absent,
\* either succeeds or fails with OrangeDataClientValidationError; no
\* missing-key or type error is raised.
C23_OnlyValidationErrors ==
    [][(last'.op \in Mutations /\ (Initialized(order) \/ last'.op = "create_order"))
       => last'.err = Ok \/ last'.err.exc = "OrangeDataClientValidationError"]_vars

\* the barcodes of a fixed length: the key each is stored under, and its length
FixedBarcodes ==
    [barcodes_ean8 |-> [key |-> "ean8", len |-> 8],
     barcodes_ean13 |-> [key |-> "ean13", len |-> 13],
     barcodes_itf14 |-> [key |-> "itf14", len |-> 14],
     barcodes_mi |-> [key |-> "mi", len |-> 20],
     barcodes_egais20 |-> [key |-> "egais20", len |-> 23],
     barcodes_egais30 |-> [key |-> "egais30", len |-> 14]]

\* C24: under ffdVersion 4 each fixed-length barcode is validated against
\* its own value: a call that supplies only such barcodes succeeds exactly
\* when every supplied one has its own declared length, whichever others are
\* supplied, and then stores each of them.
C24_BarcodesOwnLength ==
    [][(/\ last'.op = "add_position_to_order" /\ Initialized(order)
        /\ Eq(order["content"]["ffdVersion"], 4)
        /\ \A n \in (DOMAIN PositionArgs) \ DOMAIN FixedBarcodes :
                last'.args[n] = PositionArgs[n])
       => /\ last'.err = Ok <=>
                \A f \in DOMAIN FixedBarcodes :
                    Truthy(last'.args[f]) => Len(last'.args[f].v) = FixedBarcodes[f].len
          /\ last'.err = Ok =>
                \A f \in DOMAIN FixedBarcodes :
                    Truthy(last'.args[f]) =>
                        Appended(order')["barcodes"][FixedBarcodes[f].key] = last'.args[f]
          /\ last'.err # Ok => last'.err.exc = "OrangeDataClientValidationError"]_vars

\* C26: when add_position_to_order is given a numeric non-zero unit_tax_sum
\* the appended position's unitTaxSum equals that unit_tax_sum, whatever
\* tax_sum is, and its taxSum, when present, equals tax_sum.
C26_UnitTaxSumStored ==
    [][(/\ Succeeded("add_position_to_order") /\ Initialized(order)
        /\ Truthy(last'.args.unit_tax_sum)
        /\ isinstance(last'.args.unit_tax_sum, {"int", "float"}))
       => /\ "unitTaxSum" \in DOMAIN Appended(order')
          /\ Appended(order')["unitTaxSum"] = last'.args.unit_tax_sum
          /\ "taxSum" \in DOMAIN Appended(order') =>
                Appended(order')["taxSum"] = last'.args.tax_sum]_vars

\* C27: under ffdVersion 4, when add_position_to_order is given a valid
\* item_code (1..223 characters) the appended position's itemCode equals
\* that item_code, whether or not planned_status is also supplied.
C27_ItemCodeKept ==
    [][(/\ Succeeded("add_position_to_order") /\ Initialized(order)
        /\ Eq(order["content"]["ffdVersion"], 4)
        /\ Truthy(last'.args.item_code)
        /\ Len(last'.args.item_code.v) \in 1..223)
       => /\ "itemCode" \in DOMAIN Appended(order')
          /\ Appended(order')["itemCode"] = last'.args.item_code]_vars

\* C28: a supplierINN stored in a position has 10 to 12 characters, and a
\* supplied supplier_inn whose length is outside 10..12 makes
\* add_position_to_order raise instead of appending a position without it.
C28_SupplierInnLength ==
    [][(/\ last'.op = "add_position_to_order" /\ Initialized(order)
        /\ Truthy(last'.args.supplier_inn))
       => IF Len(last'.args.supplier_inn.v) \in 10..12
          THEN last'.err = Ok => Appended(order')["supplierINN"] = last'.args.supplier_inn
          ELSE last'.err # Ok /\ order' = order]_vars

\* C25: on an initialized order add_payment_to_order(type_, amount) appends
\* a payment exactly when type_ is in {1,2,14,15,16} and amount is a
\* fixed-point decimal with at most 2 fractional digits; in every other case
\* it raises a validation error and the payments are unchanged; the outcome
\* does not depend on the positions or payments already in the document.
C25_PaymentAccepted ==
    [][(last'.op = "add_payment_to_order" /\ Initialized(order))
       => IF /\ In(last'.args.type_, {1, 2, 14, 15, 16})
             /\ isinstance(last'.args.amount, {"Decimal"})
             /\ last'.args.amount.e <= 2
          THEN /\ last'.err = Ok
               /\ Len(Payments(order')) = Len(Payments(order)) + 1
               /\ SubSeq(Payments(order'), 1, Len(Payments(order))) = Payments(order)
               /\ Payments(order')[Len(Payments(order'))]["type"] = last'.args.type_
          ELSE /\ last'.err.exc = "OrangeDataClientValidationError"
               /\ Payments(order') = Payments(order)]_vars

\* the order document d lacks none of the parts create_order writes
Complete(d) ==
    /\ {"type", "positions", "checkClose", "customerContact"} \subseteq DOMAIN d["content"]
    /\ {"payments", "taxationSystem"} \subseteq DOMAIN d["content"]["checkClose"]

\* C29: send_order only ever signs and transmits an order whose most recent
\* create_order succeeded: it never transmits a partially initialized
\* document, one lacking content.type, positions, checkClose, taxationSystem
\* or customerContact.
C29_SendsOnlyCompleteOrders ==
    (last.op = "send_order" /\ wire # NoRequest /\ wire.json # None)
    => Complete(wire.json)

\* the correction document d was started by create_correction12, which
\* alone gives a correction its list of positions
Revision12(d) == "positions" \in DOMAIN d["content"]

\* C30: the document sent by post_correction12 is one built by
\* create_correction12 (with positions), the document sent by
\* post_correction is one built by create_correction (without), and
\* add_position_to_correction and add_payment_to_correction only extend a
\* document built by create_correction12.
C30_RevisionsDoNotMix ==
    [][/\ (last'.op = "post_correction12" /\ wire' # NoRequest /\ correction # None)
          => Revision12(wire'.json)
       /\ (last'.op = "post_correction" /\ wire' # NoRequest /\ correction # None)
          => ~Revision12(wire'.json)
       /\ (\/ Succeeded("add_position_to_correction")
           \/ Succeeded("add_payment_to_correction"))
          => Revision12(correction)]_vars

====
